---- MODULE Spec2Model ----
(***************************************************************************)
(* shot-box: the media repository store, the ingestion pipeline            *)
(* (process_file), the add command, the consistency checker                *)
(* (check_consistency), the opening of the store and the geolocation of    *)
(* an image.                                                               *)
(*                                                                         *)
(* The repository holds two generations of the pipeline: ImageOrganizer    *)
(* (src/app/logic.py) and PhotoOrganizer (src/logic.py).  Both run against *)
(* a store with the same insert / update code.  The variable `organizer`   *)
(* says which of the two is running; every property of process_file is    *)
(* checked for both.                                                       *)
(***************************************************************************)
EXTENDS Integers, Sequences, FiniteSets, TLC

VARIABLES
    organizer,  \* which pipeline class runs: "ImageOrganizer" or "PhotoOrganizer"
    src,        \* the source folder: file index -> content (the file's bytes)
    rows,       \* the store's table, in insertion order (id = position)
    fs,         \* files under the repository root: path -> content
    dirs,       \* folders created under the repository root
    pc,         \* position inside process_file: "idle" when no call is running
    cur,        \* locals of the running (or last) process_file call
    ret,        \* what the last call returned
    branch,     \* which exit the last process_file call took
    log,        \* severity of what the last process_file call logged
    copied,     \* history: <<crypto_hash, path>> of every copy the pipeline completed
    returned,   \* history: crypto hashes whose inserting process_file call ran to a return
    call,       \* the last store / pipeline operation and its arguments
    report,     \* what the last check_consistency returned
    envLeft,    \* how many outside changes of the repository tree may still happen
    batch,      \* the add command: its candidates, its position, its result lists
    catalog,    \* the store's file: its schema, and what opening it came to
    geo,        \* an image's GPS tags, the reverse lookup's answer, the GeoLocation built
    image,      \* a file handed to Image(): its tags and suffix, the object built from it
    writers     \* two processes inside insert_media: where each is, what it has read

vars == <<organizer, src, rows, fs, dirs, pc, cur, ret, branch, log, copied,
          returned, call, report, envLeft, batch, catalog, geo, image, writers>>

(***************************************************************************)
(* Bounds                                                                  *)
(***************************************************************************)
MaxFiles == 3
MaxEnv == 1

\* the source folder holds files 1 .. MaxFiles; files 1 and 2 are byte-identical
Files == 1 .. MaxFiles
ContentOf(i) == IF i <= 2 THEN 1 ELSE i - 1
Contents == {ContentOf(i) : i \in Files}

(***************************************************************************)
(* Black-box providers: pure and deterministic in the file's bytes.        *)
(***************************************************************************)
\* sha256 of the bytes: different bytes, different digest
crypto_hash(c) == 100 + c

\* phash of the picture: contents 1 and 2 look alike, 3 and 4 look alike, ...
perceptual_hash(c) == (c + 1) \div 2

\* a damaged or half-written file: PIL cannot open it
Partial == 0

\* EXIF DateTimeOriginal of the bytes: <<year, month>>, or <<>> when absent
exif_datetime(c) ==
    IF c % 3 = 1 THEN <<2023, 5>>
    ELSE IF c % 3 = 2 THEN <<>>
    ELSE <<2024, 12>>

\* str() of the year and month numbers the model uses
Str(n) ==
    CASE n = 2023 -> "2023"
      [] n = 2024 -> "2024"
      [] n = 5 -> "5"
      [] n = 12 -> "12"

\* the suffixes of the source files, by file index
ExtTable == <<"jpg", "JPG", "Jpeg", "png">>
ExtOf(i) == ExtTable[((i - 1) % Len(ExtTable)) + 1]

\* str.upper() and str.lower() on the suffixes
upper(e) ==
    CASE e \in {"jpg", "JPG"} -> "JPG"
      [] e \in {"png", "PNG"} -> "PNG"
      [] e \in {"Jpeg", "jpeg", "JPEG"} -> "JPEG"
      [] e \in {"gif", "GIF"} -> "GIF"
      [] OTHER -> e
lower(e) ==
    CASE e \in {"jpg", "JPG"} -> "jpg"
      [] e \in {"png", "PNG"} -> "png"
      [] e \in {"Jpeg", "jpeg", "JPEG"} -> "jpeg"
      [] e \in {"gif", "GIF"} -> "gif"
      [] OTHER -> e

\* config["image"]["types"] flattened
IMAGE_EXTS == {"jpg", "jpeg", "png"}

\* a source file's absolute path
SrcPath(i) == [folder |-> <<"in">>, stem |-> <<i>>, ext |-> ExtOf(i)]

\* new_filepath = "" : the empty string, falsy in Python
EmptyPath == [folder |-> <<>>, stem |-> <<>>, ext |-> ""]

(***************************************************************************)
(* The store                                                               *)
(***************************************************************************)
\* rows with a given crypto_hash / perceptual_hash
ByCrypto(tbl, ch) == {k \in 1 .. Len(tbl) : tbl[k].crypto_hash = ch}
ByPerceptual(tbl, ph) == {k \in 1 .. Len(tbl) : tbl[k].perceptual_hash = ph}

\* the duplicate test of insert: is there an entry with the same crypto_hash
InsertIsNew_Uncopied(tbl, media) ==
    {k \in ByCrypto(tbl, media.crypto_hash) : tbl[k].new_filepath # EmptyPath} = {}
InsertIsNew_ByPerceptual(tbl, media) == ByPerceptual(tbl, media.perceptual_hash) = {}
InsertIsNew_Always(tbl, media) == TRUE
InsertIsNew(tbl, media) == ByCrypto(tbl, media.crypto_hash) = {}

\* the rank insert gives: count of entries with the same perceptual_hash
CountSamePerceptual_Zero(tbl, media) == 0
CountSamePerceptual_All(tbl, media) == Len(tbl)
CountSamePerceptual(tbl, media) == Cardinality(ByPerceptual(tbl, media.perceptual_hash))

insert_media_NoCommit(tbl, media) ==
    IF InsertIsNew(tbl, media)
    THEN [tbl |-> tbl, ret |-> <<CountSamePerceptual(tbl, media)>>]
    ELSE [tbl |-> tbl, ret |-> <<>>]
insert_media_Merge(tbl, media) ==
    IF InsertIsNew(tbl, media)
    THEN LET n == CountSamePerceptual(tbl, media)
         IN [tbl |-> Append(tbl, [media EXCEPT !.id = Len(tbl) + 1,
                                               !.n_perceptual_hash = n]),
             ret |-> <<n>>]
    ELSE [tbl |-> [k \in 1 .. Len(tbl) |->
                     IF tbl[k].crypto_hash = media.crypto_hash
                     THEN [media EXCEPT !.id = k,
                                        !.n_perceptual_hash = tbl[k].n_perceptual_hash]
                     ELSE tbl[k]],
          ret |-> <<>>]
\* insert_media / insert_photo / add_photo: the table after the call, and what it
\* returns: <<rank>>, or <<>> for None
insert_media(tbl, media) ==
    IF InsertIsNew(tbl, media)
    THEN LET n == CountSamePerceptual(tbl, media)
         IN [tbl |-> Append(tbl, [media EXCEPT !.id = Len(tbl) + 1,
                                               !.n_perceptual_hash = n]),
             ret |-> <<n>>]
    ELSE [tbl |-> tbl, ret |-> <<>>]

\* update_newpath: UPDATE ... SET new_filepath WHERE crypto_hash = :crypto_hash
update_newpath_AllRows(tbl, ch, newpath) ==
    [k \in 1 .. Len(tbl) |-> [tbl[k] EXCEPT !.new_filepath = newpath]]
update_newpath_Upsert(tbl, ch, newpath) ==
    IF ByCrypto(tbl, ch) = {}
    THEN Append(tbl, [id |-> Len(tbl) + 1, original_filepath |-> EmptyPath,
                      datetime |-> <<>>, perceptual_hash |-> 0, crypto_hash |-> ch,
                      new_filepath |-> newpath, n_perceptual_hash |-> 0])
    ELSE [k \in 1 .. Len(tbl) |->
            IF tbl[k].crypto_hash = ch
            THEN [tbl[k] EXCEPT !.new_filepath = newpath]
            ELSE tbl[k]]
update_newpath(tbl, ch, newpath) ==
    [k \in 1 .. Len(tbl) |->
        IF tbl[k].crypto_hash = ch
        THEN [tbl[k] EXCEPT !.new_filepath = newpath]
        ELSE tbl[k]]

\* a MediaDBModel / Photos object as process_file builds it
NewModel(path, c) ==
    [id |-> 0,
     original_filepath |-> path,
     datetime |-> exif_datetime(c),
     perceptual_hash |-> perceptual_hash(c),
     crypto_hash |-> crypto_hash(c),
     new_filepath |-> EmptyPath,
     n_perceptual_hash |-> 0]

(***************************************************************************)
(* The pipeline: process_file                                              *)
(***************************************************************************)
\* attributes an ExifTags object of src/app/logic.py carries
ExifTagsAttrs ==
    {"_exif_tags", "camera", "datetime", "width", "height", "resolution_units",
     "resolution_x", "resolution_y", "location_lat", "location_long"}

\* keys of Photo.tags of src/logic.py
PhotoTagsKeys ==
    {"filepath", "camera", "datetime", "size", "width", "height",
     "resolution_units", "resolution_x", "resolution_y", "location_coord",
     "location_country", "location_region", "location_city",
     "perceptual_hash", "crypto_hash"}

\* image_obj.exif_tags.<name> (ImageOrganizer) / image_obj.tags[<name>]
\* (PhotoOrganizer) inside the try block: does the lookup succeed
LookupOk(name) ==
    IF organizer = "ImageOrganizer" THEN name \in ExifTagsAttrs
    ELSE name \in PhotoTagsKeys

\* the destination folder: repo/<year>/<month>, or repo/unknown/unknown
DestFolder(dt) ==
    IF dt # <<>> THEN <<Str(dt[1]), Str(dt[2])>>
    ELSE <<"unknown", "unknown">>

\* the destination file: <perceptual_hash>_<n>.<EXTENSION>
DestPath(dt, ph, n, ext) ==
    [folder |-> DestFolder(dt), stem |-> <<ph, n>>, ext |-> upper(ext)]

\* dest_filepath.exists()
DestExists_Never(tree, p) == FALSE
DestExists(tree, p) == p \in DOMAIN tree

\* except Exception: every exception the try block can raise is caught
Caught_OnlyOSError(exc) == exc = "OSError"
Caught(exc) == exc \in {"OSError", "AttributeError"}

\* if n_perceptualhash is None: return False
Halted_Never(r) == FALSE
Halted(r) == r = <<>>

\* the rank as it goes into the file name (None, never formatted by the code
\* as written, stands as -1)
RankOf(r) == IF r = <<>> THEN -1 ELSE r[1]

NoCall == [op |-> "none", ch |-> 0, ph |-> 0, path |-> EmptyPath, ret |-> <<>>]
NoLocals == [file |-> 0, c |-> 0, n |-> 0, dest |-> EmptyPath]
NoReport ==
    [raised |-> FALSE, exist_db_not_copied |-> <<>>, exist_db_not_repo |-> <<>>,
     exist_repo_not_db |-> {}, exist_repo_incorrect_name |-> <<>>]

\* the result of the last process_file call is gone once something else runs
Forget ==
    /\ cur' = NoLocals
    /\ ret' = "none"
    /\ branch' = "none"
    /\ log' = "none"

\* the try block raised exc: except Exception logs an error and returns False;
\* an exception the clause does not catch leaves process_file
Except(exc) ==
    /\ branch' = exc
    /\ IF Caught(exc)
       THEN ret' = "False" /\ log' = "error"
       ELSE ret' = "raised" /\ log' = log

\* process_file, first part: Image(image_path), the model object, insert.
\* A None from insert returns False at once.
PF_Insert(i) ==
    /\ pc = "idle"
    /\ LET c == src[i]
           media == NewModel(SrcPath(i), c)
           res == insert_media(rows, media)
       IN /\ rows' = res.tbl
          /\ call' = [op |-> "process_file", ch |-> media.crypto_hash,
                      ph |-> media.perceptual_hash, path |-> SrcPath(i),
                      ret |-> res.ret]
          /\ IF Halted(res.ret)
             THEN /\ pc' = "idle"
                  /\ ret' = "False"
                  /\ branch' = "duplicate"
                  /\ cur' = [file |-> i, c |-> c, n |-> 0, dest |-> EmptyPath]
             ELSE /\ pc' = "inserted"
                  /\ ret' = "running"
                  /\ branch' = "running"
                  /\ cur' = [file |-> i, c |-> c, n |-> RankOf(res.ret), dest |-> EmptyPath]
    /\ log' = "none"
    /\ report' = NoReport
    /\ UNCHANGED <<organizer, image, writers, batch, catalog, geo, src, fs, dirs, copied, returned, envLeft>>

\* process_file, do_copy (True in every call the repository makes): destination folder, mkdir(parents, exist_ok),
\* destination name and path
PF_Mkdir ==
    /\ pc = "inserted"
    /\ LET dt == exif_datetime(cur.c)
           dest == DestPath(dt, perceptual_hash(cur.c), cur.n, ExtOf(cur.file))
       IN /\ dirs' = dirs \cup {DestFolder(dt)}
          /\ cur' = [cur EXCEPT !.dest = dest]
    /\ pc' = "mkdir"
    /\ report' = NoReport
    /\ UNCHANGED <<organizer, image, writers, batch, catalog, geo, src, rows, fs, ret, branch, log, copied, returned,
                   call, envLeft>>

\* process_file: dest_filepath.exists() -> error logged, return False
PF_Refuse ==
    /\ pc = "mkdir"
    /\ DestExists(fs, cur.dest)
    /\ pc' = "idle"
    /\ ret' = "False"
    /\ branch' = "collision"
    /\ log' = "error"
    /\ returned' = returned \cup {crypto_hash(cur.c)}
    /\ report' = NoReport
    /\ UNCHANGED <<organizer, image, writers, batch, catalog, geo, src, rows, fs, dirs, cur, copied, call, envLeft>>

\* process_file: shutil.copy(source, dest) runs to its end
PF_Copy ==
    /\ pc = "mkdir"
    /\ ~DestExists(fs, cur.dest)
    /\ LookupOk("filepath")
    /\ fs' = (cur.dest :> src[cur.file]) @@ fs
    /\ copied' = copied \cup {<<crypto_hash(cur.c), cur.dest>>}
    /\ pc' = "copied"
    /\ report' = NoReport
    /\ UNCHANGED <<organizer, image, writers, batch, catalog, geo, src, rows, dirs, cur, ret, branch, log, returned,
                   call, envLeft>>

\* process_file: an exception inside the try block before the copy is whole:
\* the attribute lookup of the source path fails, or shutil.copy raises, with
\* nothing or a half-written file at the destination.
\* except Exception: error logged, return False
PF_CopyRaises ==
    /\ pc = "mkdir"
    /\ ~DestExists(fs, cur.dest)
    /\ IF LookupOk("filepath")
       THEN /\ \E half \in BOOLEAN :
                   fs' = IF half THEN (cur.dest :> Partial) @@ fs ELSE fs
            /\ Except("OSError")
       ELSE /\ fs' = fs
            /\ Except("AttributeError")
    /\ pc' = "idle"
    /\ returned' = returned \cup {crypto_hash(cur.c)}
    /\ report' = NoReport
    /\ UNCHANGED <<organizer, image, writers, batch, catalog, geo, src, rows, dirs, cur, copied, call, envLeft>>

\* process_file: update_newpath(crypto_hash, dest_filepath), return True;
\* a failing lookup of the crypto hash is an exception in the try block
PF_Update ==
    /\ pc = "copied"
    /\ IF LookupOk("crypto_hash")
       THEN /\ rows' = update_newpath(rows, crypto_hash(cur.c), cur.dest)
            /\ ret' = "True"
            /\ branch' = "added"
            /\ log' = log
       ELSE /\ rows' = rows
            /\ Except("AttributeError")
    /\ pc' = "idle"
    /\ returned' = returned \cup {crypto_hash(cur.c)}
    /\ report' = NoReport
    /\ UNCHANGED <<organizer, image, writers, batch, catalog, geo, src, fs, dirs, cur, copied, call, envLeft>>

\* the process is killed inside process_file; a copy under way may leave a
\* half-written file
Crash ==
    /\ pc \in {"inserted", "mkdir", "copied"}
    /\ \E half \in BOOLEAN :
          fs' = IF /\ half
                   /\ pc = "mkdir"
                   /\ cur.dest \notin DOMAIN fs
                   /\ LookupOk("filepath")
                THEN (cur.dest :> Partial) @@ fs
                ELSE fs
    /\ pc' = "idle"
    /\ ret' = "killed"
    /\ branch' = "killed"
    /\ report' = NoReport
    /\ UNCHANGED <<organizer, image, writers, batch, catalog, geo, src, rows, dirs, cur, log, copied, returned, call, envLeft>>

(***************************************************************************)
(* The consistency checker                                                 *)
(***************************************************************************)
\* scan_folder: the files below a folder whose lower-cased suffix is allowed
scan_folder_TopLevel(tree, image_exts) ==
    {p \in DOMAIN tree : p.folder = <<>> /\ lower(p.ext) \in image_exts}
scan_folder(tree, image_exts) == {p \in DOMAIN tree : lower(p.ext) \in image_exts}

\* Path(p).stem.split("_")[0] of a repository file name
StemHash(p) == p.stem[1]

\* one pass of the loop body of check_consistency over row k; acc is the four
\* lists so far.  list.remove of a path that is not in the list raises
\* ValueError, and hashing a file PIL cannot open raises: both end the call.
CheckRow_SkipEmpty(tree, row, acc) ==
    IF acc.raised THEN acc
    ELSE IF row.new_filepath # EmptyPath
    THEN IF row.new_filepath \in DOMAIN tree
         THEN IF tree[row.new_filepath] = Partial
              THEN [acc EXCEPT !.raised = TRUE]
              ELSE IF StemHash(row.new_filepath) = perceptual_hash(tree[row.new_filepath])
              THEN IF row.new_filepath \in acc.exist_repo_not_db
                   THEN [acc EXCEPT !.exist_repo_not_db = @ \ {row.new_filepath}]
                   ELSE [acc EXCEPT !.raised = TRUE]
              ELSE [acc EXCEPT !.exist_repo_incorrect_name = Append(@, row.new_filepath)]
         ELSE [acc EXCEPT !.exist_db_not_repo = Append(@, row.new_filepath)]
    ELSE acc
CheckRow_NoHashCheck(tree, row, acc) ==
    IF acc.raised THEN acc
    ELSE IF row.new_filepath # EmptyPath
    THEN IF row.new_filepath \in DOMAIN tree
         THEN IF tree[row.new_filepath] = Partial
              THEN [acc EXCEPT !.raised = TRUE]
              ELSE IF row.new_filepath \in acc.exist_repo_not_db
              THEN [acc EXCEPT !.exist_repo_not_db = @ \ {row.new_filepath}]
              ELSE [acc EXCEPT !.raised = TRUE]
         ELSE [acc EXCEPT !.exist_db_not_repo = Append(@, row.new_filepath)]
    ELSE [acc EXCEPT !.exist_db_not_copied = Append(@, row.original_filepath)]
CheckRow(tree, row, acc) ==
    IF acc.raised THEN acc
    ELSE IF row.new_filepath # EmptyPath
    THEN IF row.new_filepath \in DOMAIN tree
         THEN IF tree[row.new_filepath] = Partial
              THEN [acc EXCEPT !.raised = TRUE]
              ELSE IF StemHash(row.new_filepath) = perceptual_hash(tree[row.new_filepath])
              THEN IF row.new_filepath \in acc.exist_repo_not_db
                   THEN [acc EXCEPT !.exist_repo_not_db = @ \ {row.new_filepath}]
                   ELSE [acc EXCEPT !.raised = TRUE]
              ELSE [acc EXCEPT !.exist_repo_incorrect_name = Append(@, row.new_filepath)]
         ELSE [acc EXCEPT !.exist_db_not_repo = Append(@, row.new_filepath)]
    ELSE [acc EXCEPT !.exist_db_not_copied = Append(@, row.original_filepath)]

RECURSIVE CheckRows(_, _, _, _)
CheckRows(tree, tbl, k, acc) ==
    IF k > Len(tbl) THEN acc
    ELSE CheckRows(tree, tbl, k + 1, CheckRow(tree, tbl[k], acc))

\* check_consistency(image_ext): the four lists, or raised
check_consistency(tree, tbl, image_ext) ==
    CheckRows(tree, tbl, 1,
              [NoReport EXCEPT !.exist_repo_not_db = scan_folder(tree, image_ext)])

\* check_consistency called with any list of suffixes
ScanLists == {IMAGE_EXTS, {"png"}}
CheckConsistency_Call(image_ext) ==
    /\ pc = "idle"
    /\ report' = check_consistency(fs, rows, image_ext)
    /\ call' = [NoCall EXCEPT !.op = "check_consistency"]
    /\ Forget
    /\ UNCHANGED <<organizer, image, writers, batch, catalog, geo, src, rows, fs, dirs, pc, copied, returned, envLeft>>

\* a checker that also clears the new path of a record whose file is gone
CheckConsistency_Repairing ==
    /\ pc = "idle"
    /\ report' = check_consistency(fs, rows, IMAGE_EXTS)
    /\ rows' = [k \in 1 .. Len(rows) |->
                  IF rows[k].new_filepath \notin DOMAIN fs
                  THEN [rows[k] EXCEPT !.new_filepath = EmptyPath]
                  ELSE rows[k]]
    /\ call' = [NoCall EXCEPT !.op = "check_consistency"]
    /\ Forget
    /\ UNCHANGED <<organizer, image, writers, batch, catalog, geo, src, fs, dirs, pc, copied, returned, envLeft>>
\* verify: check_consistency(IMAGE_EXTS)
CheckConsistency ==
    /\ pc = "idle"
    /\ report' = check_consistency(fs, rows, IMAGE_EXTS)
    /\ call' = [NoCall EXCEPT !.op = "check_consistency"]
    /\ Forget
    /\ UNCHANGED <<organizer, image, writers, batch, catalog, geo, src, rows, fs, dirs, pc, copied, returned, envLeft>>

(***************************************************************************)
(* get_info                                                                *)
(***************************************************************************)
\* st_size of a file's bytes, and the size column of a record: the size of
\* the bytes its crypto hash was taken of
st_size(c) == 10 * c
RowSize(row) == st_size(row.crypto_hash - crypto_hash(0))

\* Path(photo.new_filepath).is_file()
is_file(tree, p) == p \in DOMAIN tree

\* the loop of get_info from row k on: total_size += photo.size;
\* files_exist += 1 if Path(photo.new_filepath).is_file() else 1
RECURSIVE InfoLoop(_, _, _, _)
InfoLoop(tree, tbl, k, acc) ==
    IF k > Len(tbl) THEN acc
    ELSE InfoLoop(tree, tbl, k + 1,
                  [acc EXCEPT !.total_size = @ + RowSize(tbl[k]),
                              !.files_exist = @ + (IF is_file(tree, tbl[k].new_filepath)
                                                   THEN 1 ELSE 1)])

\* get_info(): total_photos, total_size, files_exist
get_info(tree, tbl) ==
    InfoLoop(tree, tbl, 1,
             [total_photos |-> Len(tbl), total_size |-> 0, files_exist |-> 0])

\* info: get_info() on the repository as it is; call.ret holds the three
\* numbers in the order above
GetInfo ==
    /\ pc = "idle"
    /\ LET info == get_info(fs, rows)
       IN call' = [NoCall EXCEPT !.op = "get_info",
                                 !.ret = <<info.total_photos, info.total_size,
                                           info.files_exist>>]
    /\ report' = NoReport
    /\ Forget
    /\ UNCHANGED <<organizer, image, writers, batch, catalog, geo, src, rows, fs, dirs, pc,
                   copied, returned, envLeft>>

(***************************************************************************)
(* The world outside: the repository tree diverges from the store          *)
(***************************************************************************)
\* the first path the pipeline can name for each source file
RepoPaths ==
    {DestPath(exif_datetime(ContentOf(i)), perceptual_hash(ContentOf(i)), 0, ExtOf(i)) :
        i \in Files}

\* a picture no source file holds (its perceptual hash is none of theirs);
\* the pictures put into the tree from outside: that one and the first
\* source file's; a file of the tree whose suffix is not an image's
Foreign == 2 * MaxFiles
EnvContents == {ContentOf(1), Foreign}
NotesPath == [folder |-> <<"unknown", "unknown">>, stem |-> <<0, 0>>, ext |-> "txt"]
TreePaths == RepoPaths \cup {NotesPath}

\* someone puts a picture into the repository tree (new, or over a file)
EnvPut(p, c) ==
    /\ envLeft > 0
    /\ pc = "idle"
    /\ fs' = (p :> c) @@ fs
    /\ dirs' = dirs \cup {p.folder}
    /\ envLeft' = envLeft - 1
    /\ call' = [NoCall EXCEPT !.op = "env"]
    /\ report' = NoReport
    /\ Forget
    /\ UNCHANGED <<organizer, image, writers, batch, catalog, geo, src, rows, pc, copied, returned>>

\* someone deletes a file of the repository tree
EnvDelete(p) ==
    /\ envLeft > 0
    /\ pc = "idle"
    /\ p \in DOMAIN fs
    /\ fs' = [q \in DOMAIN fs \ {p} |-> fs[q]]
    /\ envLeft' = envLeft - 1
    /\ call' = [NoCall EXCEPT !.op = "env"]
    /\ report' = NoReport
    /\ Forget
    /\ UNCHANGED <<organizer, image, writers, batch, catalog, geo, src, rows, dirs, pc, copied, returned>>

\* a file of the repository tree is damaged: PIL cannot open what is left
EnvDamage(p) ==
    /\ envLeft > 0
    /\ pc = "idle"
    /\ p \in DOMAIN fs
    /\ fs[p] # Partial
    /\ fs' = [fs EXCEPT ![p] = Partial]
    /\ envLeft' = envLeft - 1
    /\ call' = [NoCall EXCEPT !.op = "env"]
    /\ report' = NoReport
    /\ Forget
    /\ UNCHANGED <<organizer, image, writers, batch, catalog, geo, src, rows, dirs, pc, copied, returned>>

(***************************************************************************)
(* The store called directly                                               *)
(***************************************************************************)
NumHashes == 3
StoreHashes == 1 .. NumHashes
StorePerceptual == {1, 2}

StorePaths == {DestPath(<<>>, 1, n, "jpg") : n \in 0 .. 1}

\* insert_media(media) with any record
StoreInsert(ch, ph) ==
    /\ LET media == [id |-> 0, original_filepath |-> SrcPath(ch),
                     datetime |-> <<>>, perceptual_hash |-> ph,
                     crypto_hash |-> ch, new_filepath |-> EmptyPath,
                     n_perceptual_hash |-> 0]
           res == insert_media(rows, media)
       IN /\ rows' = res.tbl
          /\ call' = [op |-> "insert", ch |-> ch, ph |-> ph, path |-> EmptyPath,
                      ret |-> res.ret]
    /\ report' = NoReport
    /\ UNCHANGED <<organizer, image, writers, batch, catalog, geo, src, fs, dirs, pc, cur, ret, branch, log, copied,
                   returned, envLeft>>

\* update_newpath(crypto_hash, newpath) with any hash and path
StoreUpdate(ch, p) ==
    /\ rows' = update_newpath(rows, ch, p)
    /\ call' = [op |-> "update_newpath", ch |-> ch, ph |-> 0, path |-> p, ret |-> <<>>]
    /\ report' = NoReport
    /\ UNCHANGED <<organizer, image, writers, batch, catalog, geo, src, fs, dirs, pc, cur, ret, branch, log, copied,
                   returned, envLeft>>

\* search_by_perceptualhash: query.filter_by(perceptual_hash=...).one_or_none()
\* gives None for no row, the row for one, and raises MultipleResultsFound
\* for more than one
search_by_perceptualhash(tbl, ph) ==
    LET hits == ByPerceptual(tbl, ph)
    IN IF hits = {} THEN [raised |-> "none", row |-> <<>>]
       ELSE IF Cardinality(hits) = 1
       THEN [raised |-> "none", row |-> <<CHOOSE k \in hits : TRUE>>]
       ELSE [raised |-> "MultipleResultsFound", row |-> <<>>]

\* search_by_perceptualhash(perceptual_hash) with any hash; call.ret holds
\* the id of the row returned
StoreSearch(ph) ==
    /\ LET res == search_by_perceptualhash(rows, ph)
       IN /\ call' = [op |-> "search_by_perceptualhash", ch |-> 0, ph |-> ph,
                      path |-> EmptyPath, ret |-> res.row]
          /\ ret' = IF res.raised = "none" THEN "returned" ELSE "raised"
          /\ branch' = res.raised
    /\ report' = NoReport
    /\ UNCHANGED <<organizer, image, writers, batch, catalog, geo, src, rows, fs, dirs, pc, cur,
                   log, copied, returned, envLeft>>

(***************************************************************************)
(* Two writers inside insert_media                                         *)
(***************************************************************************)
\* each process opens its own engine and session (DBConnectionHandler); the
\* two queries and the commit of insert_media are three statements against
\* the catalog file, and nothing in the code holds a lock across them
Writers == {1, 2}
IdleWriter == [pc |-> "idle", file |-> 0, n |-> 0, ret |-> "none"]
NoWriters == [serial |-> TRUE, w |-> [v \in Writers |-> IdleWriter]]

\* the record a writer is inserting
MediaOf(v) == NewModel(SrcPath(writers.w[v].file), ContentOf(writers.w[v].file))

\* one process, one thread: a call of insert_media begins when no other is
\* under way
MayStart_Unlocked(v) == TRUE
MayStart(v) ==
    writers.serial => \A u \in Writers \ {v} : writers.w[u].pc = "idle"

\* crypto_hash = Column(String, nullable=False, unique=True): the commit of
\* a second row with a stored crypto hash raises IntegrityError
UniqueViolated(tbl, media) == ByCrypto(tbl, media.crypto_hash) # {}

\* insert_media, first query: is there an entry with the same crypto_hash;
\* if there is, return None
W_Check(v, i) ==
    /\ writers.w[v].pc = "idle"
    /\ MayStart(v)
    /\ LET media == NewModel(SrcPath(i), ContentOf(i))
       IN writers' = [writers EXCEPT !.w[v] =
                         IF InsertIsNew(rows, media)
                         THEN [pc |-> "checked", file |-> i, n |-> 0, ret |-> "none"]
                         ELSE [pc |-> "idle", file |-> i, n |-> 0, ret |-> "None"]]
    /\ UNCHANGED <<organizer, image, batch, catalog, geo, src, rows, fs, dirs, pc, cur, ret,
                   branch, log, copied, returned, call, report, envLeft>>

\* insert_media, second query: the count of entries with the same
\* perceptual_hash
W_Count(v) ==
    /\ writers.w[v].pc = "checked"
    /\ writers' = [writers EXCEPT !.w[v].pc = "counted",
                                  !.w[v].n = CountSamePerceptual(rows, MediaOf(v))]
    /\ UNCHANGED <<organizer, image, batch, catalog, geo, src, rows, fs, dirs, pc, cur, ret,
                   branch, log, copied, returned, call, report, envLeft>>

\* insert_media: session.add(media), session.commit(), return the rank
W_Write(v) ==
    /\ writers.w[v].pc = "counted"
    /\ IF UniqueViolated(rows, MediaOf(v))
       THEN /\ rows' = rows
            /\ writers' = [writers EXCEPT !.w[v].pc = "idle",
                                          !.w[v].ret = "IntegrityError"]
       ELSE /\ rows' = Append(rows, [MediaOf(v) EXCEPT
                                        !.id = Len(rows) + 1,
                                        !.n_perceptual_hash = writers.w[v].n])
            /\ writers' = [writers EXCEPT !.w[v].pc = "idle", !.w[v].ret = "rank"]
    /\ UNCHANGED <<organizer, image, batch, catalog, geo, src, fs, dirs, pc, cur, ret,
                   branch, log, copied, returned, call, report, envLeft>>

(***************************************************************************)
(* GPS tags and the geolocation resolver (src/app/exif.py,                 *)
(* src/app/geolocation.py, src/app/images.py)                              *)
(***************************************************************************)
\* Python values that may be None: <<>> is None, <<x>> is the number x
IsTruthy(v) == v # <<>> /\ v[1] # 0

\* the EXIF tags the GPS code reads
GpsTags ==
    {"Image GPSInfo", "GPS GPSLongitude", "GPS GPSLatitude",
     "GPS GPSLongitudeRef", "GPS GPSLatitudeRef"}
GpsSubTags == GpsTags \ {"Image GPSInfo"}

\* what the reverse lookup (Nominatim.reverse) can come to: it raises, it
\* times out, it finds nothing (None), its answer has no "address", or the
\* address carries some of the fields city / state / country
AddressFields == {"city", "state", "country"}
Responses ==
    [kind : {"raises", "timeout", "nothing", "malformed"}, fields : {{}}]
        \cup [kind : {"address"}, fields : SUBSET AddressFields]

\* the string "unknown" as the sequence of its characters, and a 3-tuple
UnknownStr == <<"u", "n", "k", "n", "o", "w", "n">>
Field(resp, f) == IF f \in resp.fields THEN f ELSE "None"

\* get_location_from_gpscoord(latitude, longitude): the value it returns
get_location_from_gpscoord(lat, lon, resp) ==
    IF ~IsTruthy(lat) \/ ~IsTruthy(lon) THEN UnknownStr
    ELSE IF resp.kind # "address" THEN UnknownStr
    ELSE <<Field(resp, "country"), Field(resp, "state"), Field(resp, "city")>>

\* country, state, city = <value>: unpacking works on exactly three items
Unpacks(v) == Len(v) = 3

\* GeoLocation(longitude, latitude): __post_init__ fills country, state, city;
\* raised names the exception that leaves the constructor, lookup says
\* whether the reverse lookup was called
GeoLocation(lon, lat, resp) ==
    IF IsTruthy(lat) /\ IsTruthy(lon)
    THEN LET v == get_location_from_gpscoord(lat, lon, resp)
         IN IF Unpacks(v)
            THEN [raised |-> "none", lookup |-> TRUE, longitude |-> lon,
                  latitude |-> lat, country |-> v[1], state |-> v[2], city |-> v[3]]
            ELSE [raised |-> "ValueError", lookup |-> TRUE, longitude |-> lon,
                  latitude |-> lat, country |-> "unset", state |-> "unset",
                  city |-> "unset"]
    ELSE [raised |-> "none", lookup |-> FALSE, longitude |-> lon, latitude |-> lat,
          country |-> "unknown", state |-> "unknown", city |-> "unknown"]

\* parse_exifcoord_str(token) * (1 if ref.upper() == <positive> else -1):
\* None * 1 is a TypeError
Signed(parsed, ref, positive) ==
    IF parsed = <<>> THEN [raised |-> "TypeError", val |-> <<>>]
    ELSE [raised |-> "none",
          val |-> <<parsed[1] * (IF ref = positive THEN 1 ELSE -1)>>]

\* get_gpscoord_from_exif(exif_tags): (latitude, longitude), (None, None)
\* as soon as one of the four tags is missing
get_gpscoord_from_exif_NoRefCheck(g) ==
    IF {"GPS GPSLongitude", "GPS GPSLatitude"} \subseteq g.tags
    THEN LET la == Signed(g.lat_abs, g.lat_ref, "N")
             lo == Signed(g.lon_abs, g.lon_ref, "E")
         IN IF la.raised # "none" THEN [raised |-> la.raised, lat |-> <<>>, lon |-> <<>>]
            ELSE IF lo.raised # "none"
            THEN [raised |-> lo.raised, lat |-> <<>>, lon |-> <<>>]
            ELSE [raised |-> "none", lat |-> la.val, lon |-> lo.val]
    ELSE [raised |-> "none", lat |-> <<>>, lon |-> <<>>]
get_gpscoord_from_exif(g) ==
    IF "GPS GPSLongitude" \notin g.tags THEN [raised |-> "none", lat |-> <<>>, lon |-> <<>>]
    ELSE IF "GPS GPSLatitude" \notin g.tags
    THEN [raised |-> "none", lat |-> <<>>, lon |-> <<>>]
    ELSE IF "GPS GPSLongitudeRef" \notin g.tags
    THEN [raised |-> "none", lat |-> <<>>, lon |-> <<>>]
    ELSE IF "GPS GPSLatitudeRef" \notin g.tags
    THEN [raised |-> "none", lat |-> <<>>, lon |-> <<>>]
    ELSE LET la == Signed(g.lat_abs, g.lat_ref, "N")
             lo == Signed(g.lon_abs, g.lon_ref, "E")
         IN IF la.raised # "none" THEN [raised |-> la.raised, lat |-> <<>>, lon |-> <<>>]
            ELSE IF lo.raised # "none"
            THEN [raised |-> lo.raised, lat |-> <<>>, lon |-> <<>>]
            ELSE [raised |-> "none", lat |-> la.val, lon |-> lo.val]

\* ExifTags: location_lat, location_long (read only under "Image GPSInfo")
ExifLocation(g) ==
    IF "Image GPSInfo" \in g.tags THEN get_gpscoord_from_exif(g)
    ELSE [raised |-> "none", lat |-> <<>>, lon |-> <<>>]

\* Image.__init__: exif_tags, then geo_location
ImageGeoLocation(g, resp) ==
    LET loc == ExifLocation(g)
    IN IF loc.raised # "none"
       THEN [raised |-> loc.raised, lookup |-> FALSE, longitude |-> <<>>,
             latitude |-> <<>>, country |-> "unset", state |-> "unset",
             city |-> "unset"]
       ELSE IF IsTruthy(loc.lat) /\ IsTruthy(loc.lon)
       THEN GeoLocation(loc.lon, loc.lat, resp)
       ELSE GeoLocation(<<>>, <<>>, resp)

\* the GPS tags of a file: which are there, the coordinate tokens as
\* parse_exifcoord_str reads them (<<>>: unparsable), the reference letters
GpsInputs ==
    [tags : SUBSET GpsTags, lat_abs : {<<>>, <<0>>, <<38>>}, lon_abs : {<<0>>, <<9>>},
     lat_ref : {"N", "S"}, lon_ref : {"W"}]
NoGps == [tags |-> {}, lat_abs |-> <<>>, lon_abs |-> <<0>>, lat_ref |-> "N", lon_ref |-> "W"]
NoResponse == [kind |-> "nothing", fields |-> {}]
NoGeoOut ==
    [raised |-> "none", lookup |-> FALSE, longitude |-> <<>>, latitude |-> <<>>,
     country |-> "unset", state |-> "unset", city |-> "unset"]
NoGeo ==
    [stage |-> "off", gps |-> NoGps, resp |-> NoResponse, lat |-> <<>>, lon |-> <<>>,
     out |-> NoGeoOut]

\* coordinates GeoLocation can be called with
Coords == {<<>>, <<0>>, <<38>>, <<-9>>}

\* Image(filepath) reads the file's GPS tags and builds its GeoLocation
ImageInit_Geo ==
    /\ geo.stage = "input"
    /\ geo' = [geo EXCEPT !.stage = "image", !.out = ImageGeoLocation(geo.gps, geo.resp)]
    /\ UNCHANGED <<organizer, image, writers, batch, catalog, src, rows, fs, dirs, pc, cur, ret,
                   branch, log, copied, returned, call, report, envLeft>>

\* GeoLocation(longitude, latitude) called with any pair of coordinates
GeoLocation_Call(lon, lat) ==
    /\ geo.stage = "input"
    /\ geo' = [geo EXCEPT !.stage = "direct", !.lat = lat, !.lon = lon,
                          !.out = GeoLocation(lon, lat, geo.resp)]
    /\ UNCHANGED <<organizer, image, writers, batch, catalog, src, rows, fs, dirs, pc, cur, ret,
                   branch, log, copied, returned, call, report, envLeft>>

(***************************************************************************)
(* Opening the store: MediaDatabase.__init__ and db_valid                  *)
(***************************************************************************)
\* the columns of the one table of the model's metadata, "media"
MediaColumns ==
    {"id", "original_filepath", "camera", "datetime", "file_type", "size", "width",
     "height", "resolution_units", "resolution_x", "resolution_y",
     "location_longitude", "location_latitude", "location_country",
     "location_state", "location_city", "perceptual_hash", "crypto_hash",
     "new_filepath", "n_perceptual_hash"}

\* MediaDBModel.metadata.sorted_tables
tables_model == <<[name |-> "media", columns |-> MediaColumns]>>

\* schemas a catalog file found on disk may hold: tables in sorted order,
\* each with the model's columns, one column short, or one column more
TableNames == <<"albums", "media", "photos">>
ColumnSets == {MediaColumns, MediaColumns \ {"new_filepath"}, MediaColumns \cup {"rating"}}
RECURSIVE SchemasFrom(_)
SchemasFrom(k) ==
    IF k > Len(TableNames) THEN {<<>>}
    ELSE LET rest == SchemasFrom(k + 1)
         IN rest \cup {<<[name |-> TableNames[k], columns |-> c]>> \o r :
                          c \in ColumnSets, r \in rest}
Schemas == SchemasFrom(1)

\* a catalog file: absent, or a database with a schema
Absent == [exists |-> FALSE, tables |-> <<>>]
CatalogFiles == {Absent} \cup {[exists |-> TRUE, tables |-> t] : t \in Schemas}

\* db_valid: table count, then per table of the model its name and its
\* columns (the columns are compared with those of the file's first table)
db_valid(tables_check) ==
    IF Len(tables_check) # Len(tables_model) THEN FALSE
    ELSE \A k \in 1 .. Len(tables_model) :
            /\ tables_model[k].name = tables_check[k].name
            /\ tables_model[k].columns = tables_check[1].columns

NoCatalog ==
    [stage |-> "closed", file |-> Absent, before |-> Absent, outcome |-> "none",
     logged |-> "none", ran |-> "none"]

\* MediaDatabase(db_path): an absent file is created with the model's
\* tables; a file that is there is validated, and the verdict is logged.
\* The constructor returns in each case.
MediaDatabase_Init ==
    /\ catalog.stage = "closed"
    /\ catalog' =
          IF ~catalog.file.exists
          THEN [catalog EXCEPT !.stage = "opened", !.before = catalog.file,
                               !.file = [exists |-> TRUE, tables |-> tables_model],
                               !.outcome = "returned", !.logged = "info: created"]
          ELSE IF ~db_valid(catalog.file.tables)
          THEN [catalog EXCEPT !.stage = "opened", !.before = catalog.file,
                               !.outcome = "returned", !.logged = "error: not valid"]
          ELSE [catalog EXCEPT !.stage = "opened", !.before = catalog.file,
                               !.outcome = "returned",
                               !.logged = "error: exists and is valid"]
    /\ UNCHANGED <<organizer, image, writers, batch, geo, src, rows, fs, dirs, pc, cur, ret, branch,
                   log, copied, returned, call, report, envLeft>>

\* the operations a command goes on to run against the store it opened
StoreOps == {"insert_media", "update_newpath", "get_all"}

\* add / verify / info: start_repo built the Repository (and with it the
\* store object); the command's operation runs against the store
Command(op) ==
    /\ catalog.stage = "opened"
    /\ catalog.outcome = "returned"
    /\ catalog' = [catalog EXCEPT !.stage = "ran", !.ran = op]
    /\ UNCHANGED <<organizer, image, writers, batch, geo, src, rows, fs, dirs, pc, cur, ret, branch,
                   log, copied, returned, call, report, envLeft>>

(***************************************************************************)
(* The add command: one process_file call per candidate file               *)
(***************************************************************************)
\* what a candidate file holds for the constructor of the image object:
\* a picture it reads, bytes PIL cannot open, a date tag that is no date,
\* GPS tags whose reverse lookup times out
FileKinds == {"ok", "unreadable", "bad_datetime", "lookup_fails"}

\* GPS tags all there with coordinates that are not zero, and a lookup that
\* times out
FullGps ==
    [tags |-> GpsTags, lat_abs |-> <<38>>, lon_abs |-> <<9>>, lat_ref |-> "N",
     lon_ref |-> "W"]
TimedOut == [kind |-> "timeout", fields |-> {}]

\* Image(image_path) / Photo(image_path), the first statement of
\* process_file, outside any try: the exception it raises, or "none".
\* perceptual_hash opens the file with PIL; datetime.strptime parses the date
\* tag; GeoLocation unpacks the lookup's answer (ImageOrganizer), the lookup
\* itself is not guarded (PhotoOrganizer)
ImageRaises(kind) ==
    CASE kind = "unreadable" -> "UnidentifiedImageError"
      [] kind = "bad_datetime" -> "ValueError"
      [] kind = "lookup_fails" ->
            IF organizer = "ImageOrganizer"
            THEN ImageGeoLocation(FullGps, TimedOut).raised
            ELSE "GeocoderTimedOut"
      [] OTHER -> "none"

\* image_paths = scan_folder(subfolder_path, IMAGE_EXTS): the source files
\* with an allowed suffix, in order
Candidates == SelectSeq([i \in Files |-> i], LAMBDA i : lower(ExtOf(i)) \in IMAGE_EXTS)

NoBatch ==
    [stage |-> "off", kind |-> [i \in Files |-> "ok"], pos |-> 1,
     ignored_images |-> <<>>, processed_images |-> <<>>,
     ended |-> [i \in Files |-> "none"], raised |-> "none"]

\* add, loop head: the next candidate goes to process_file, whose first
\* statement builds the image object; an exception there leaves process_file
\* and, nothing in add catching it, the loop and the command
Add_Call ==
    /\ batch.stage = "loop"
    /\ pc = "idle"
    /\ LET exc == ImageRaises(batch.kind[Candidates[batch.pos]])
       IN batch' = IF exc = "none" THEN [batch EXCEPT !.stage = "call"]
                   ELSE [batch EXCEPT !.stage = "aborted", !.raised = exc]
    /\ Forget
    /\ call' = NoCall
    /\ report' = NoReport
    /\ UNCHANGED <<organizer, image, writers, catalog, geo, src, rows, fs, dirs, pc, copied, returned,
                   envLeft>>

\* process_file goes on with the model object and the insert
Add_ProcessFile ==
    /\ batch.stage = "call"
    /\ ret = "none"
    /\ PF_Insert(Candidates[batch.pos])

\* add, after the call: a falsy result puts the file's name into
\* ignored_images, a truthy one into processed_images; then the next file
Add_Record ==
    /\ batch.stage = "call"
    /\ pc = "idle"
    /\ ret \in {"True", "False"}
    /\ LET i == Candidates[batch.pos]
           last == batch.pos = Len(Candidates)
       IN batch' = [batch EXCEPT
                       !.ignored_images = IF ret = "False" THEN Append(@, i) ELSE @,
                       !.processed_images = IF ret = "False" THEN @ ELSE Append(@, i),
                       !.ended[i] = branch,
                       !.pos = IF last THEN @ ELSE @ + 1,
                       !.stage = IF last THEN "done" ELSE "loop"]
    /\ UNCHANGED <<organizer, image, writers, catalog, geo, src, rows, fs, dirs, pc, cur, ret, branch,
                   log, copied, returned, call, report, envLeft>>

\* between two calls someone puts a picture into the repository tree
Add_Env ==
    /\ batch.stage = "loop"
    /\ \E p \in RepoPaths, c \in Contents : EnvPut(p, c)

(***************************************************************************)
(* Image(filepath): the metadata extractor and the file type               *)
(* (src/app/exif.py, src/app/images.py)                                    *)
(***************************************************************************)
\* the printable value of a tag as the extractor's conversions see it: the
\* tag is not there, its value is well formed, its value is malformed
Tokens == {"absent", "valid", "malformed"}

\* the tags the extractor converts (height and the second width tag go
\* through the same conversion as the width; camera and units are copied)
ExifTagNames ==
    {"EXIF DateTimeOriginal", "Image DateTime", "EXIF ExifImageWidth",
     "Image XResolution", "Image YResolution"}

\* the GPS tags of a file: none; all, well formed; all, with a latitude token
\* parse_exifcoord_str cannot read
BadGps == [FullGps EXCEPT !.lat_abs = <<>>]
ImageGps == {NoGps, FullGps, BadGps}

\* the suffix of a file's name (without the dot)
Suffixes == {"jpg", "JPG", "Jpeg", "PNG", "gif", "GIF", ""}

\* a file: can it be opened, does decoding its tags raise; its tags; its suffix
ImageFiles ==
    [read : {"ok", "decode_raises", "open_raises"}, tok : [ExifTagNames -> Tokens],
     gps : ImageGps, suffix : Suffixes]

\* read_exif: open(filepath) stands outside the try; an exception of
\* exifread.process_file gives {}
read_exif(file) ==
    IF file.read = "open_raises" THEN [raised |-> "OSError", tok |-> file.tok, gps |-> file.gps]
    ELSE IF file.read = "decode_raises"
    THEN [raised |-> "none", tok |-> [t \in ExifTagNames |-> "absent"], gps |-> NoGps]
    ELSE [raised |-> "none", tok |-> file.tok, gps |-> file.gps]

\* datetime.strptime(val.printable, "%Y:%m:%d %H:%M:%S")
strptime(token) ==
    IF token = "valid" THEN [raised |-> "none", val |-> <<2021, 7>>]
    ELSE [raised |-> "ValueError", val |-> <<>>]

\* int(val.printable)
int(token) ==
    IF token = "valid" THEN [raised |-> "none", val |-> <<72>>]
    ELSE [raised |-> "ValueError", val |-> <<>>]

\* extract_first_integer(val.printable): None when nothing matches
extract_first_integer(token) == IF token = "valid" THEN <<640>> ELSE <<>>

\* an ExifTags object with every value None
AbsentExif ==
    [raised |-> "none", datetime |-> <<>>, width |-> <<>>, resolution_x |-> <<>>,
     resolution_y |-> <<>>, location_lat |-> <<>>, location_long |-> <<>>]

\* if val := exif_tags.get(<tag>): <convert> ... else: None
Converted(tags, tag) ==
    IF tags.tok[tag] # "absent" THEN int(tags.tok[tag])
    ELSE [raised |-> "none", val |-> <<>>]

\* ExifTags(filepath).__post_init__: the object, or the first exception
ExifTags(file) ==
    LET tags == read_exif(file)
        dt == IF tags.tok["EXIF DateTimeOriginal"] # "absent"
              THEN strptime(tags.tok["EXIF DateTimeOriginal"])
              ELSE IF tags.tok["Image DateTime"] # "absent"
              THEN strptime(tags.tok["Image DateTime"])
              ELSE [raised |-> "none", val |-> <<>>]
        width == IF tags.tok["EXIF ExifImageWidth"] # "absent"
                 THEN extract_first_integer(tags.tok["EXIF ExifImageWidth"])
                 ELSE <<>>
        rx == Converted(tags, "Image XResolution")
        ry == Converted(tags, "Image YResolution")
        loc == ExifLocation(tags.gps)
    IN IF tags.raised # "none" THEN [AbsentExif EXCEPT !.raised = tags.raised]
       ELSE IF dt.raised # "none" THEN [AbsentExif EXCEPT !.raised = dt.raised]
       ELSE IF rx.raised # "none" THEN [AbsentExif EXCEPT !.raised = rx.raised]
       ELSE IF ry.raised # "none" THEN [AbsentExif EXCEPT !.raised = ry.raised]
       ELSE IF loc.raised # "none" THEN [AbsentExif EXCEPT !.raised = loc.raised]
       ELSE [raised |-> "none", datetime |-> dt.val, width |-> width,
             resolution_x |-> rx.val, resolution_y |-> ry.val,
             location_lat |-> loc.lat, location_long |-> loc.lon]

\* config["image"]["types"]: the type map, in the order of the file
ImageTypes ==
    <<[type |-> "jpeg", exts |-> {"jpg", "jpeg"}], [type |-> "png", exts |-> {"png"}]>>

\* get_type(image_ext): the first type whose list holds image_ext, or None
get_type(image_ext) ==
    LET hits == {k \in 1 .. Len(ImageTypes) : image_ext \in ImageTypes[k].exts}
    IN IF hits = {} THEN <<>>
       ELSE <<ImageTypes[CHOOSE k \in hits : \A m \in hits : k <= m].type>>

\* self.type = get_type(self.filepath.suffix.lower())
ImageType_AsWritten(suffix) == get_type(suffix)
ImageType(suffix) == get_type(lower(suffix))

\* the columns of the media table declared nullable=False, and the columns
\* of a model object that hold None
NotNullColumns ==
    {"original_filepath", "perceptual_hash", "crypto_hash", "n_perceptual_hash"}
NoneColumns(media) == {col \in {"datetime", "file_type"} : media[col] = <<>>}

\* the path and the bytes of the file handed to Image()
ImagePath(file) == [folder |-> <<"in">>, stem |-> <<1>>, ext |-> file.suffix]

\* ImageModel(..., file_type=image_obj.type, datetime=image_obj.exif_tags.datetime, ...)
TypedModel(file, exif, type) ==
    [id |-> 0,
     original_filepath |-> ImagePath(file),
     datetime |-> exif.datetime,
     file_type |-> type,
     perceptual_hash |-> perceptual_hash(ContentOf(1)),
     crypto_hash |-> crypto_hash(ContentOf(1)),
     new_filepath |-> EmptyPath,
     n_perceptual_hash |-> 0]

NoFile ==
    [read |-> "ok", tok |-> [t \in ExifTagNames |-> "absent"], gps |-> NoGps,
     suffix |-> ""]
NoImage ==
    [stage |-> "off", file |-> NoFile, exif |-> AbsentExif, type |-> <<>>,
     n |-> <<>>, raised |-> "none"]

\* Image(filepath): type, then ExifTags; an exception of ExifTags leaves
\* the constructor
Image_Init ==
    /\ image.stage = "file"
    /\ LET exif == ExifTags(image.file)
       IN image' = [image EXCEPT !.stage = "image", !.exif = exif,
                                 !.type = ImageType(image.file.suffix),
                                 !.raised = exif.raised]
    /\ UNCHANGED <<organizer, batch, catalog, geo, writers, src, rows, fs, dirs, pc, cur,
                   ret, branch, log, copied, returned, call, report, envLeft>>

\* process_file after Image(): the model object is built and inserted; the
\* commit refuses None in a column that is not nullable
Image_Insert ==
    /\ image.stage = "image"
    /\ image.raised = "none"
    /\ LET media == TypedModel(image.file, image.exif, image.type)
       IN IF NoneColumns(media) \cap NotNullColumns # {}
          THEN /\ rows' = rows
               /\ image' = [image EXCEPT !.stage = "stored", !.raised = "IntegrityError"]
          ELSE LET res == insert_media(rows, media)
               IN /\ rows' = res.tbl
                  /\ image' = [image EXCEPT !.stage = "stored", !.n = res.ret]
    /\ UNCHANGED <<organizer, batch, catalog, geo, writers, src, fs, dirs, pc, cur,
                   ret, branch, log, copied, returned, call, report, envLeft>>

(***************************************************************************)
(* Specifications                                                          *)
(***************************************************************************)
\* a new repository: empty store, empty tree, no call made
InitRepo ==
    /\ src = [i \in Files |-> ContentOf(i)]
    /\ rows = <<>>
    /\ fs = <<>>
    /\ dirs = {}
    /\ pc = "idle"
    /\ cur = NoLocals
    /\ ret = "none"
    /\ branch = "none"
    /\ log = "none"
    /\ copied = {}
    /\ returned = {}
    /\ call = NoCall
    /\ report = NoReport
    /\ envLeft = MaxEnv

Init ==
    /\ organizer \in {"ImageOrganizer", "PhotoOrganizer"}
    /\ InitRepo
    /\ batch = NoBatch
    /\ catalog = NoCatalog
    /\ geo = NoGeo
    /\ image = NoImage
    /\ writers = NoWriters

Next ==
    \/ \E i \in Files : PF_Insert(i)
    \/ PF_Mkdir
    \/ PF_Refuse
    \/ PF_Copy
    \/ PF_CopyRaises
    \/ PF_Update
    \/ Crash
    \/ CheckConsistency
    \/ \E p \in TreePaths, c \in EnvContents : EnvPut(p, c)
    \/ \E p \in TreePaths : EnvDelete(p)

\* the pipeline, the checker, kills of the process and outside changes
Spec == Init /\ [][Next]_vars

NextVerify ==
    \/ \E i \in Files : PF_Insert(i)
    \/ PF_Mkdir
    \/ PF_Copy
    \/ PF_CopyRaises
    \/ PF_Update
    \/ Crash
    \/ \E image_ext \in ScanLists : CheckConsistency_Call(image_ext)
    \/ \E p \in TreePaths : EnvDelete(p)
    \/ \E p \in TreePaths : EnvDamage(p)

\* the checker called with any list of suffixes on a repository whose files
\* may have been deleted or damaged
SpecVerify == Init /\ [][NextVerify]_vars

NextPipeline ==
    \/ \E i \in Files : PF_Insert(i)
    \/ PF_Mkdir
    \/ PF_Copy
    \/ PF_CopyRaises
    \/ PF_Update
    \/ Crash
    \/ CheckConsistency
    \/ GetInfo

\* a repository that starts empty and is changed by the pipeline alone
SpecPipeline == Init /\ [][NextPipeline]_vars

NextStore ==
    \/ \E ch \in StoreHashes, ph \in StorePerceptual : StoreInsert(ch, ph)
    \/ \E ch \in StoreHashes, p \in StorePaths : StoreUpdate(ch, p)

\* the store alone, called with any arguments
SpecStore == Init /\ [][NextStore]_vars

NextSearch ==
    \/ \E ch \in StoreHashes, ph \in StorePerceptual : StoreInsert(ch, ph)
    \/ \E ph \in StorePerceptual : StoreSearch(ph)

\* the store filled with any records and searched by perceptual hash
SpecSearch == Init /\ [][NextSearch]_vars

\* two processes inserting the source files, one call at a time (serial) or
\* with their statements interleaved
InitWriters ==
    /\ organizer \in {"ImageOrganizer", "PhotoOrganizer"}
    /\ InitRepo
    /\ batch = NoBatch
    /\ catalog = NoCatalog
    /\ geo = NoGeo
    /\ image = NoImage
    /\ writers \in {[NoWriters EXCEPT !.serial = b] : b \in BOOLEAN}

NextWriters ==
    \/ \E v \in Writers, i \in Files : W_Check(v, i)
    \/ \E v \in Writers : W_Count(v)
    \/ \E v \in Writers : W_Write(v)

SpecWriters == InitWriters /\ [][NextWriters]_vars

\* add over a source folder whose files are of any kind
InitAdd ==
    /\ organizer \in {"ImageOrganizer", "PhotoOrganizer"}
    /\ InitRepo
    /\ batch \in {[NoBatch EXCEPT !.stage = "loop", !.kind = k] : k \in [Files -> FileKinds]}
    /\ catalog = NoCatalog
    /\ geo = NoGeo
    /\ image = NoImage
    /\ writers = NoWriters

NextAdd ==
    \/ Add_Call
    \/ Add_ProcessFile
    \/ PF_Mkdir
    \/ PF_Refuse
    \/ PF_Copy
    \/ PF_CopyRaises
    \/ PF_Update
    \/ Add_Record
    \/ Add_Env

SpecAdd == InitAdd /\ [][NextAdd]_vars

\* a store opened over any catalog file, then used
InitOpen ==
    /\ organizer = "ImageOrganizer"
    /\ InitRepo
    /\ batch = NoBatch
    /\ catalog \in {[NoCatalog EXCEPT !.file = f] : f \in CatalogFiles}
    /\ geo = NoGeo
    /\ image = NoImage
    /\ writers = NoWriters

NextOpen ==
    \/ MediaDatabase_Init
    \/ \E op \in StoreOps : Command(op)

SpecOpen == InitOpen /\ [][NextOpen]_vars

\* the geolocation of an image with any GPS tags and any lookup answer
InitGeo ==
    /\ organizer = "ImageOrganizer"
    /\ InitRepo
    /\ batch = NoBatch
    /\ catalog = NoCatalog
    /\ geo \in {[NoGeo EXCEPT !.stage = "input", !.gps = g, !.resp = r] :
                   g \in GpsInputs, r \in Responses}
    /\ image = NoImage
    /\ writers = NoWriters

NextGeo ==
    \/ ImageInit_Geo
    \/ \E lon \in Coords, lat \in Coords : GeoLocation_Call(lon, lat)

SpecGeo == InitGeo /\ [][NextGeo]_vars

\* Image() over a file with any tags and any suffix, then its insert
InitImage ==
    /\ organizer = "ImageOrganizer"
    /\ InitRepo
    /\ batch = NoBatch
    /\ catalog = NoCatalog
    /\ geo = NoGeo
    /\ image \in {[NoImage EXCEPT !.stage = "file", !.file = f] : f \in ImageFiles}
    /\ writers = NoWriters

NextImage ==
    \/ Image_Init
    \/ Image_Insert

SpecImage == InitImage /\ [][NextImage]_vars

(***************************************************************************)
(* Properties of the store (checked under SpecStore)                       *)
(***************************************************************************)
Range(seq) == {seq[k] : k \in 1 .. Len(seq)}

\* C1: whatever inserts and path updates were made, no two stored records
\* have the same crypto_hash.
C1_CryptoHashUnique ==
    \A j, k \in 1 .. Len(rows) :
        rows[j].crypto_hash = rows[k].crypto_hash => j = k

\* a full table, a path update done, and a duplicate just turned away
C1_Witness ==
    /\ Len(rows) = NumHashes
    /\ \E k \in 1 .. Len(rows) : rows[k].new_filepath # EmptyPath
    /\ call.op = "insert"
    /\ call.ret = <<>>

\* C2: an insert whose crypto_hash is already stored returns None (DUPLICATE)
\* and writes nothing: the table after the call is the table before it.
C2_DuplicateInsertWritesNothing ==
    [][(call'.op = "insert" /\ ByCrypto(rows, call'.ch) # {})
          => (call'.ret = <<>> /\ rows' = rows)]_vars

\* a duplicate was turned away although its perceptual hash differs from the
\* stored record's
C2_Witness ==
    /\ call.op = "insert"
    /\ call.ret = <<>>
    /\ \E k \in 1 .. Len(rows) :
          /\ rows[k].crypto_hash = call.ch
          /\ rows[k].perceptual_hash # call.ph

\* C3: every stored rank is the number of records with the same perceptual
\* hash inserted before it (so n such records carry 0, 1, ..., n-1 in
\* insertion order, whatever else was inserted or rejected in between), and
\* the rank insert returns is the rank it stored.
C3_RanksCountEarlierRecords ==
    /\ \A k \in 1 .. Len(rows) :
          rows[k].n_perceptual_hash =
              Cardinality({j \in 1 .. k - 1 :
                              rows[j].perceptual_hash = rows[k].perceptual_hash})
    /\ (call.op = "insert" /\ call.ret # <<>>)
          => /\ rows[Len(rows)].crypto_hash = call.ch
             /\ call.ret = <<rows[Len(rows)].n_perceptual_hash>>

\* two records of one perceptual hash ranked 0 and 1, with a record of another
\* perceptual hash inserted and a path update made between them
C3_Witness ==
    /\ Len(rows) = 3
    /\ rows[1].perceptual_hash = rows[3].perceptual_hash
    /\ rows[2].perceptual_hash # rows[1].perceptual_hash
    /\ rows[3].n_perceptual_hash = 1
    /\ rows[2].new_filepath # EmptyPath
    /\ call.op = "insert"
    /\ call.ret = <<1>>

(***************************************************************************)
(* Properties of the pipeline (checked under Spec)                         *)
(***************************************************************************)
\* the destinations the pipeline has completed a copy to for crypto hash ch
CopiedTo(ch) == {x[2] : x \in {y \in copied : y[1] = ch}}

C5_IngestEndsRecorded ==
    (/\ pc = "idle"
     /\ call.op = "process_file"
     /\ call.ret # <<>>
     /\ branch \notin {"none", "killed", "collision", "OSError"})
    => LET dt == exif_datetime(cur.c)
           dest == [folder |-> IF dt = <<>> THEN <<"unknown", "unknown">>
                               ELSE <<Str(dt[1]), Str(dt[2])>>,
                    stem |-> <<perceptual_hash(cur.c), call.ret[1]>>,
                    ext |-> upper(ExtOf(cur.file))]
       IN /\ ret = "True"
          /\ dest \in DOMAIN fs
          /\ fs[dest] = cur.c
          /\ \E k \in ByCrypto(rows, crypto_hash(cur.c)) : rows[k].new_filepath = dest

\* C6: no step deletes a record, and a step changes a stored record only by
\* the path update of process_file giving an empty new_filepath its value:
\* every other field stays, and a new_filepath once set stays.
C6_RecordsOnlyGainPath ==
    [][/\ Len(rows') >= Len(rows)
       /\ \A k \in 1 .. Len(rows) :
             \/ rows'[k] = rows[k]
             \/ /\ pc = "copied"
                /\ branch' = "added"
                /\ rows[k].new_filepath = EmptyPath
                /\ rows'[k].new_filepath # EmptyPath
                /\ rows'[k] = [rows[k] EXCEPT !.new_filepath = rows'[k].new_filepath]]_vars

\* a recorded file was offered again and turned away, its record still
\* carrying its path
C6_Witness ==
    /\ branch = "duplicate"
    /\ Len(rows) >= 2
    /\ \E k \in ByCrypto(rows, crypto_hash(cur.c)) :
          /\ rows[k].new_filepath # EmptyPath
          /\ rows[k].original_filepath # SrcPath(cur.file)

\* C7: a process_file call whose insert returns None (DUPLICATE) ends there:
\* it returns False with no error logged, and the store, the repository
\* tree, its folders and the source folder are as before.
C7_DuplicateHaltsWithoutEffect ==
    [][(pc = "idle" /\ call'.op = "process_file" /\ call'.ret = <<>>)
          => /\ pc' = "idle"
             /\ ret' = "False"
             /\ branch' = "duplicate"
             /\ log' = "none"
             /\ rows' = rows
             /\ fs' = fs
             /\ dirs' = dirs
             /\ src' = src
             /\ copied' = copied]_vars

\* the second of two byte-identical files was turned away before any folder
\* of the repository existed
C7_Witness ==
    /\ branch = "duplicate"
    /\ ret = "False"
    /\ cur.file = 2
    /\ rows[1].original_filepath = SrcPath(1)
    /\ dirs = {}

\* C8: a process_file call that finds a file at its destination path copies
\* nothing: it returns False with an error logged, the file at the
\* destination and the source folder are as before, and the record it
\* inserted stays with an empty new_filepath.
C8_CollisionRefused ==
    [][(pc = "mkdir" /\ cur.dest \in DOMAIN fs /\ branch' # "killed")
          => /\ pc' = "idle"
             /\ ret' = "False"
             /\ branch' = "collision"
             /\ log' = "error"
             /\ fs' = fs
             /\ src' = src
             /\ rows' = rows
             /\ \E k \in ByCrypto(rows', crypto_hash(cur.c)) :
                   rows'[k].new_filepath = EmptyPath]_vars

\* a call was refused at a destination that holds another picture
C8_Witness ==
    /\ branch = "collision"
    /\ ret = "False"
    /\ cur.dest \in DOMAIN fs
    /\ fs[cur.dest] # cur.c
    /\ \E k \in ByCrypto(rows, crypto_hash(cur.c)) : rows[k].new_filepath = EmptyPath

\* C9: when the try block of process_file raises, the call still returns:
\* it returns False with an error logged, and the record it inserted stays
\* in the store with an empty new_filepath.
C9_CopyExceptionCaught ==
    [][(pc \in {"mkdir", "copied"} /\ branch' \in {"OSError", "AttributeError"})
          => /\ pc' = "idle"
             /\ ret' = "False"
             /\ log' = "error"
             /\ rows' = rows
             /\ \E k \in ByCrypto(rows', crypto_hash(cur.c)) :
                   rows'[k].new_filepath = EmptyPath]_vars

\* a copy broke off and left a half-written file at the destination
C9_Witness ==
    /\ branch = "OSError"
    /\ ret = "False"
    /\ cur.dest \in DOMAIN fs
    /\ fs[cur.dest] = Partial
    /\ \E k \in ByCrypto(rows, crypto_hash(cur.c)) : rows[k].new_filepath = EmptyPath

\* C10: check_consistency returns its lists, every record with an empty
\* new_filepath has its original path in exist_db_not_copied, and every
\* record is accounted for: listed there, in exist_db_not_repo or in
\* exist_repo_incorrect_name, or matched to its file in the tree.
C10_UncopiedRecordsListed ==
    call.op = "check_consistency" =>
        /\ ~report.raised
        /\ \A k \in 1 .. Len(rows) :
              /\ rows[k].new_filepath = EmptyPath
                    => rows[k].original_filepath \in Range(report.exist_db_not_copied)
              /\ \/ rows[k].original_filepath \in Range(report.exist_db_not_copied)
                 \/ rows[k].new_filepath \in Range(report.exist_db_not_repo)
                 \/ rows[k].new_filepath \in Range(report.exist_repo_incorrect_name)
                 \/ /\ rows[k].new_filepath \in DOMAIN fs
                    /\ rows[k].new_filepath \notin report.exist_repo_not_db

\* the checker ran over a record left by a killed call, a record left by a
\* failed copy, and a record that was copied
C10_Witness ==
    /\ call.op = "check_consistency"
    /\ \E k \in 1 .. Len(rows) :
          /\ rows[k].new_filepath = EmptyPath
          /\ rows[k].crypto_hash \notin returned
          /\ rows[k].original_filepath \in Range(report.exist_db_not_copied)
    /\ \E k \in 1 .. Len(rows) : rows[k].new_filepath # EmptyPath

(***************************************************************************)
(* Properties of the add command (checked under SpecAdd)                   *)
(***************************************************************************)
\* the result list add put a file into: processed_images counts as added,
\* ignored_images as ignored; add keeps no list of failed files
Outcome(i) ==
    IF i \in Range(batch.processed_images) THEN "added"
    ELSE IF i \in Range(batch.ignored_images) THEN "ignored"
    ELSE "none"

\* C11: a failure local to one candidate file never ends add early: add
\* never stops on an exception, and when add is over every candidate file
\* has its outcome.
C11_BatchNeverAborts ==
    /\ batch.stage # "aborted"
    /\ batch.stage = "done" =>
          \A k \in 1 .. Len(Candidates) : Outcome(Candidates[k]) # "none"

\* C12: every file process_file was run on has one outcome of ignored, added
\* and failed: ignored exactly when insert answered DUPLICATE, failed exactly
\* when the record was inserted and the copy was refused or raised, added
\* exactly when the copy and the path update were made.
C12_OutcomeTellsWhatHappened ==
    \A i \in Files :
        batch.ended[i] # "none" =>
            /\ Outcome(i) \in {"ignored", "added", "failed"}
            /\ Outcome(i) = "ignored" <=> batch.ended[i] = "duplicate"
            /\ Outcome(i) = "failed"
                  <=> batch.ended[i] \in {"collision", "OSError", "AttributeError"}
            /\ Outcome(i) = "added" <=> batch.ended[i] = "added"

(***************************************************************************)
(* Properties of the consistency checker (checked under Spec)              *)
(***************************************************************************)
\* the positions of the stored records of each case of the checker's rule
Uncopied == {k \in 1 .. Len(rows) : rows[k].new_filepath = EmptyPath}
Missing ==
    {k \in 1 .. Len(rows) :
        rows[k].new_filepath # EmptyPath /\ rows[k].new_filepath \notin DOMAIN fs}
Present ==
    {k \in 1 .. Len(rows) :
        rows[k].new_filepath # EmptyPath /\ rows[k].new_filepath \in DOMAIN fs}
NameRight ==
    {k \in Present :
        rows[k].new_filepath.stem[1] = perceptual_hash(fs[rows[k].new_filepath])}

\* C13: check_consistency puts every stored record into exactly one case:
\* empty new_filepath, its original path in exist_db_not_copied; new_filepath
\* naming no file, in exist_db_not_repo; naming a file whose perceptual hash
\* is the one in its name, taken out of exist_repo_not_db; naming a file
\* whose hash differs, in exist_repo_incorrect_name.
C13_RecordsClassifiedByRule ==
    call.op = "check_consistency" =>
        /\ ~report.raised
        /\ Range(report.exist_db_not_copied) = {rows[k].original_filepath : k \in Uncopied}
        /\ Len(report.exist_db_not_copied) = Cardinality(Uncopied)
        /\ Range(report.exist_db_not_repo) = {rows[k].new_filepath : k \in Missing}
        /\ Len(report.exist_db_not_repo) = Cardinality(Missing)
        /\ Range(report.exist_repo_incorrect_name)
              = {rows[k].new_filepath : k \in Present \ NameRight}
        /\ Len(report.exist_repo_incorrect_name) = Cardinality(Present \ NameRight)
        /\ \A k \in NameRight : rows[k].new_filepath \notin report.exist_repo_not_db

\* the checker ran over a record whose file was overwritten with another
\* picture and a record whose file is as copied
C13_Witness ==
    /\ call.op = "check_consistency"
    /\ Present \ NameRight # {}
    /\ NameRight # {}
    /\ Len(report.exist_repo_incorrect_name) = 1

C15_OutputsPairwiseDisjoint ==
    call.op = "check_consistency" =>
        LET a == Range(report.exist_db_not_copied)
            b == Range(report.exist_db_not_repo)
            c == report.exist_repo_not_db
            d == Range(report.exist_repo_incorrect_name)
        IN /\ a \cap b = {}
           /\ a \cap c = {}
           /\ a \cap d = {}
           /\ b \cap c = {}
           /\ b \cap d = {}
           /\ c \cap d = {}

\* C16: the exist_repo_not_db list check_consistency returns is the set of
\* the files in the tree with an allowed suffix that no stored record's
\* new_filepath names.
C16_NotInDbAreUnrecordedFiles ==
    call.op = "check_consistency" =>
        report.exist_repo_not_db =
            {p \in DOMAIN fs :
                /\ lower(p.ext) \in IMAGE_EXTS
                /\ \A k \in 1 .. Len(rows) : rows[k].new_filepath # p}

(***************************************************************************)
(* Properties of opening the store (checked under SpecOpen)                *)
(***************************************************************************)
\* C17: opening a store over a catalog file whose tables differ from the
\* model's raises to the caller, no operation runs against it and the file
\* stays as it was; opening over no file creates the model's tables.
C17_MismatchStopsTheOperation ==
    /\ (/\ catalog.stage # "closed"
        /\ catalog.before.exists
        /\ catalog.before.tables # tables_model)
       => /\ catalog.outcome = "raised"
          /\ catalog.stage # "ran"
          /\ catalog.file = catalog.before
    /\ (catalog.stage # "closed" /\ ~catalog.before.exists)
       => catalog.file = [exists |-> TRUE, tables |-> tables_model]

(***************************************************************************)
(* The path update (checked under SpecStore)                               *)
(***************************************************************************)
\* C18: update_newpath(crypto_hash, path) sets new_filepath to path on the
\* one record with that crypto_hash and changes nothing else: every other
\* record and every other field stay, no record is added or removed, and
\* with no record of that crypto_hash the table stays as it was.
C18_UpdateSetsOnlyThatPath ==
    [][call'.op = "update_newpath" =>
          /\ Len(rows') = Len(rows)
          /\ Cardinality(ByCrypto(rows, call'.ch)) <= 1
          /\ \A k \in 1 .. Len(rows) :
                rows'[k] = IF rows[k].crypto_hash = call'.ch
                           THEN [rows[k] EXCEPT !.new_filepath = call'.path]
                           ELSE rows[k]
          /\ ByCrypto(rows, call'.ch) = {} => rows' = rows]_vars

\* a path update reached its record while another record keeps another path
C18_Witness ==
    /\ call.op = "update_newpath"
    /\ \E k \in ByCrypto(rows, call.ch) : rows[k].new_filepath = call.path
    /\ \E j \in 1 .. Len(rows) :
          /\ rows[j].crypto_hash # call.ch
          /\ rows[j].new_filepath \notin {EmptyPath, call.path}
    /\ \E j \in 1 .. Len(rows) : rows[j].new_filepath = EmptyPath

(***************************************************************************)
(* Properties of the geolocation (checked under SpecGeo)                   *)
(***************************************************************************)
\* C19: GeoLocation built from any latitude and longitude raises nothing and
\* carries three fields; the three are "unknown" when a coordinate is None
\* or zero, when the lookup raises, times out, finds nothing or answers
\* without an address, and when the address lacks a field.
C19_ResolverNeverFails ==
    geo.stage = "direct" =>
        /\ geo.out.raised = "none"
        /\ (\/ ~IsTruthy(geo.lat)
            \/ ~IsTruthy(geo.lon)
            \/ geo.resp.kind # "address"
            \/ geo.resp.fields # AddressFields)
           => /\ geo.out.country = "unknown"
              /\ geo.out.state = "unknown"
              /\ geo.out.city = "unknown"

\* C20: an image missing one of the four GPS tags has latitude and
\* longitude None, no reverse lookup is made for it, and its country, state
\* and city are "unknown".
C20_MissingGpsTagMeansUnknown ==
    (geo.stage = "image" /\ ~(GpsSubTags \subseteq geo.gps.tags))
    => /\ geo.out.raised = "none"
       /\ geo.out.latitude = <<>>
       /\ geo.out.longitude = <<>>
       /\ ~geo.out.lookup
       /\ geo.out.country = "unknown"
       /\ geo.out.state = "unknown"
       /\ geo.out.city = "unknown"

\* an image with GPS coordinates but no latitude reference, where a lookup
\* would have answered with a full address
C20_Witness ==
    /\ geo.stage = "image"
    /\ geo.gps.tags = GpsTags \ {"GPS GPSLatitudeRef"}
    /\ geo.gps.lat_abs = <<38>>
    /\ geo.gps.lon_abs = <<9>>
    /\ geo.resp = [kind |-> "address", fields |-> AddressFields]
    /\ geo.out.country = "unknown"
    /\ geo.out.latitude = <<>>

(***************************************************************************)
(* Properties of Image() (checked under SpecImage)                         *)
(***************************************************************************)
\* C21: the metadata extractor raises nothing: a file that cannot be read or
\* whose tags cannot be decoded gives an object with every value absent, and
\* a timestamp, a number or a GPS coordinate that cannot be parsed gives an
\* absent value.
C21_ExtractorNeverRaises ==
    image.stage # "file" /\ image.stage # "off" =>
        /\ image.exif.raised = "none"
        /\ image.file.read # "ok" => image.exif = AbsentExif
        /\ (/\ image.file.read = "ok"
            /\ image.file.tok["EXIF DateTimeOriginal"] = "malformed")
           => image.exif.datetime = <<>>
        /\ (image.file.read = "ok" /\ image.file.tok["Image XResolution"] = "malformed")
           => image.exif.resolution_x = <<>>
        /\ (image.file.read = "ok" /\ image.file.gps = BadGps)
           => image.exif.location_lat = <<>>

\* the types of the map with an extension equal to the suffix up to case
TypesOf(suffix) ==
    {ImageTypes[k].type : k \in {m \in 1 .. Len(ImageTypes) :
                                    \E e \in ImageTypes[m].exts : upper(e) = upper(suffix)}}

\* C22: an image's type is the type of the map that lists its suffix, in
\* any case of the letters; a suffix the map does not list gives no type;
\* insert accepts the record of an image without type.
C22_TypeFromExtension ==
    (image.stage \in {"image", "stored"} /\ image.exif.raised = "none") =>
        /\ \A t \in TypesOf(image.file.suffix) : image.type = <<t>>
        /\ TypesOf(image.file.suffix) = {} => image.type = <<>>
        /\ (image.stage = "stored" /\ image.type = <<>>)
           => /\ image.raised = "none"
              /\ image.n = <<0>>
              /\ Len(rows) = 1
              /\ rows[1].file_type = <<>>
              /\ rows[1].original_filepath = ImagePath(image.file)

\* photo.JPG is typed jpeg and stored
C22_Witness ==
    /\ image.stage = "stored"
    /\ image.file.suffix = "JPG"
    /\ image.type = <<"jpeg">>
    /\ Len(rows) = 1
    /\ rows[1].file_type = <<"jpeg">>

(***************************************************************************)
(* Properties of a repository only the pipeline changes (checked under     *)
(* SpecPipeline)                                                           *)
(***************************************************************************)
RECURSIVE SumSizes(_, _)
SumSizes(tbl, k) == IF k > Len(tbl) THEN 0 ELSE RowSize(tbl[k]) + SumSizes(tbl, k + 1)

\* C23: get_info gives the number of records, the sum of their sizes, and
\* as files_exist the number of records whose new path is a file of the
\* repository; a record with an empty new path, or one naming a file that is
\* not there, is not counted.
C23_FilesExistCountsPlacedFiles ==
    call.op = "get_info" =>
        /\ call.ret[1] = Len(rows)
        /\ call.ret[2] = SumSizes(rows, 1)
        /\ call.ret[3] = Cardinality({k \in 1 .. Len(rows) :
                                        /\ rows[k].new_filepath # EmptyPath
                                        /\ rows[k].new_filepath \in DOMAIN fs})

\* the destination process_file computes for a stored record
DestOf(row) ==
    DestPath(row.datetime, row.perceptual_hash, row.n_perceptual_hash,
             row.original_filepath.ext)

\* C24: in a repository that starts empty and that only the pipeline
\* changes, no two records have the same perceptual hash and rank, so no
\* two records have the same destination, and process_file never finds a
\* file at the destination it computed.
C24_RanksNeverShared ==
    /\ \A j, k \in 1 .. Len(rows) :
          j # k => /\ <<rows[j].perceptual_hash, rows[j].n_perceptual_hash>>
                        # <<rows[k].perceptual_hash, rows[k].n_perceptual_hash>>
                   /\ DestOf(rows[j]) # DestOf(rows[k])
    /\ ~(pc = "mkdir" /\ DestExists(fs, cur.dest))
    /\ branch # "collision"

\* two pictures that look alike, both stored and both copied, the second
\* with rank 1, the call of the second at its destination check
C24_Witness ==
    /\ Len(rows) >= 2
    /\ \E j, k \in 1 .. Len(rows) :
          /\ j < k
          /\ rows[j].perceptual_hash = rows[k].perceptual_hash
          /\ rows[j].n_perceptual_hash = 0
          /\ rows[k].n_perceptual_hash = 1
          /\ rows[j].new_filepath = DestOf(rows[j])
          /\ rows[j].new_filepath \in DOMAIN fs
          /\ pc = "mkdir"
          /\ cur.dest = DestOf(rows[k])

(***************************************************************************)
(* Order and repetition in process_file (checked under Spec)               *)
(***************************************************************************)
\* C25: in every state, between the steps of process_file too: a call past
\* its insert has its record in the store; every file the pipeline copied,
\* and every half-written file, belongs to a stored record; and a record
\* carries a new path only after the copy to that path was completed.
C25_InsertThenCopyThenUpdate ==
    /\ pc \in {"inserted", "mkdir", "copied"}
          => ByCrypto(rows, crypto_hash(cur.c)) # {}
    /\ \A pair \in copied : ByCrypto(rows, pair[1]) # {}
    /\ \A p \in DOMAIN fs :
          fs[p] = Partial => \E k \in 1 .. Len(rows) : DestOf(rows[k]) = p
    /\ \A k \in 1 .. Len(rows) :
          rows[k].new_filepath # EmptyPath
              => <<rows[k].crypto_hash, rows[k].new_filepath>> \in copied

\* between the copy and the update: the file is at its destination, its
\* record is stored and still has no new path
C25_Witness ==
    /\ pc = "copied"
    /\ cur.dest \in DOMAIN fs
    /\ fs[cur.dest] = cur.c
    /\ \E k \in ByCrypto(rows, crypto_hash(cur.c)) : rows[k].new_filepath = EmptyPath

\* C30: process_file on a file whose crypto hash is already recorded, with
\* or without a new path, returns False at once: no record is added, no
\* file is copied and every record's new path stays as it was.
C30_ReingestChangesNothing ==
    [][(/\ pc = "idle"
        /\ call'.op = "process_file"
        /\ ByCrypto(rows, call'.ch) # {})
          => /\ pc' = "idle"
             /\ ret' = "False"
             /\ Len(rows') = Len(rows)
             /\ \A k \in 1 .. Len(rows) : rows'[k].new_filepath = rows[k].new_filepath
             /\ fs' = fs
             /\ copied' = copied]_vars

\* a file whose copy failed, so that its record has no new path, was handed
\* to process_file again
C30_Witness ==
    /\ pc = "idle"
    /\ branch = "duplicate"
    /\ Len(rows) = 1
    /\ rows[1].crypto_hash = crypto_hash(cur.c)
    /\ rows[1].new_filepath = EmptyPath
    /\ rows[1].crypto_hash \in returned
    /\ cur.file = 1

(***************************************************************************)
(* Properties of the search (checked under SpecSearch)                     *)
(***************************************************************************)
\* C26: search_by_perceptualhash(h) raises nothing; it returns None when no
\* record has the perceptual hash h, and a record with that hash otherwise,
\* also when several records have it.
C26_SearchNeverRaises ==
    call.op = "search_by_perceptualhash" =>
        /\ ret # "raised"
        /\ ByPerceptual(rows, call.ph) = {} => call.ret = <<>>
        /\ ByPerceptual(rows, call.ph) # {}
              => /\ Len(call.ret) = 1
                 /\ call.ret[1] \in ByPerceptual(rows, call.ph)

(***************************************************************************)
(* Properties of two writers (checked under SpecWriters)                   *)
(***************************************************************************)
\* two records with the same perceptual hash and the same rank
SharedRank ==
    \E j, k \in 1 .. Len(rows) :
        /\ j # k
        /\ rows[j].perceptual_hash = rows[k].perceptual_hash
        /\ rows[j].n_perceptual_hash = rows[k].n_perceptual_hash

\* a writer got past the duplicate test with bytes that are recorded by now:
\* its call will not answer None (it is about to count, or its commit failed)
NotAnsweredDuplicate ==
    \E v \in Writers :
        \/ writers.w[v].ret = "IntegrityError"
        \/ /\ writers.w[v].pc \in {"checked", "counted"}
           /\ ByCrypto(rows, MediaOf(v).crypto_hash) # {}

\* C27: the test, the count and the write of insert are three steps; when
\* every insert runs alone from its test to its write, no two records share
\* a perceptual hash and rank and bytes already recorded are always
\* answered None.  (With the steps of two writers interleaved both states
\* are reached: C27_Witness.)
C27_SerializedInsertsAreSafe ==
    writers.serial => ~SharedRank /\ ~NotAnsweredDuplicate

\* two writers, steps interleaved: two pictures that look alike were both
\* given rank 0
C27_Witness ==
    /\ ~writers.serial
    /\ SharedRank
    /\ Len(rows) = 2
    /\ rows[1].n_perceptual_hash = 0
    /\ rows[2].n_perceptual_hash = 0

\* two writers, steps interleaved: the second of two byte-identical files
\* ends in IntegrityError
C27_SecondCommitFails ==
    /\ ~writers.serial
    /\ \E v \in Writers : writers.w[v].ret = "IntegrityError" /\ writers.w[v].file = 2
    /\ Len(rows) = 1

(***************************************************************************)
(* Properties of the checker's call (C28 under Spec, C29 under SpecVerify) *)
(***************************************************************************)
\* C28: check_consistency changes no record and no file or folder, so the
\* four lists it returned are the lists a second call on the repository
\* gives.
C28_CheckChangesNothing ==
    /\ [][call'.op = "check_consistency"
             => /\ rows' = rows
                /\ fs' = fs
                /\ dirs' = dirs
                /\ src' = src]_vars
    /\ [](call.op = "check_consistency"
             => report = check_consistency(fs, rows, IMAGE_EXTS))

\* the checker ran on a repository with a record whose file is gone and a
\* record that was never copied
C28_Witness ==
    /\ call.op = "check_consistency"
    /\ Len(report.exist_db_not_repo) = 1
    /\ Len(report.exist_db_not_copied) = 1
    /\ Len(rows) = 2

\* C29: check_consistency returns its four lists in every state of the
\* store and of the tree, whatever list of suffixes it is called with: it
\* raises nothing, also when a record's new path names a file that is there
\* and rightly named but is not among the scanned files.
C29_CheckNeverRaises ==
    call.op = "check_consistency" => ~report.raised

====
